---- MODULE Spec2Model ----
(***************************************************************************)
(* A model of the merkle package: Node and Nodes (node.go), and NewTree,   *)
(* buildTree, Tree.Proof and Verify (tree.go).                             *)
(*                                                                         *)
(* Byte slices are sequences of small naturals.  Pointers to Node are      *)
(* indices into a heap (a sequence of Node records); 0 is nil.  A new node *)
(* is allocated at the end of the heap.                                    *)
(***************************************************************************)
EXTENDS Integers, Sequences, FiniteSets, TLC

\* Bounds of the model.
MaxLeaves == 5     \* longest input slice handed to NewTree
MaxVal == 2        \* leaf digests are drawn from MaxVal + 1 different values
MaxDistinctVal == 5  \* inputs without duplicates: MaxDistinctVal + 1 different values

(***************************************************************************)
(* bytes.Compare: lexicographic comparison of two byte slices, -1, 0 or 1. *)
(***************************************************************************)
RECURSIVE CompareFrom(_, _, _)
CompareFrom(a, b, k) ==
    IF k > Len(a) /\ k > Len(b) THEN 0
    ELSE IF k > Len(a) THEN -1
    ELSE IF k > Len(b) THEN 1
    ELSE IF a[k] < b[k] THEN -1
    ELSE IF a[k] > b[k] THEN 1
    ELSE CompareFrom(a, b, k + 1)

BytesCompare(a, b) == CompareFrom(a, b, 1)

(***************************************************************************)
(* The hash.Hash instance handed to NewTree and Verify.  Its state is the  *)
(* bytes absorbed since the last Reset.  Sum is a collision-free digest:   *)
(* a checksum byte (which scatters the digests among the leaf digests in   *)
(* the byte order), a marker byte, and the absorbed bytes themselves, so   *)
(* that two different inputs never share a digest.  Leaf digests (see      *)
(* LeafDigest) carry another marker, which makes the concatenation of two  *)
(* digests decodable, as it is for digests of one fixed width.             *)
(* The hash kind (algo) is the multiplier of the checksum.                 *)
(***************************************************************************)
Algos == {2, 3}

RECURSIVE Checksum(_, _, _, _)
Checksum(alg, buf, k, c) ==
    IF k > Len(buf) THEN c
    ELSE Checksum(alg, buf, k + 1, (c * alg + buf[k] + 1) % (MaxVal + 2))

HashReset(hh) == [hh EXCEPT !.buf = <<>>]

HashWrite(hh, b) == [hh EXCEPT !.buf = hh.buf \o b]

HashSum(alg, hh) == <<Checksum(alg, hh.buf, 1, 0), 1>> \o hh.buf

\* A leaf digest as the caller computes it before the tree is built.
LeafDigest(v) == <<v, 0>>

LeafDigests == {LeafDigest(v) : v \in 0..MaxVal}

(***************************************************************************)
(* node.go                                                                 *)
(***************************************************************************)
newNode(hv) == [val |-> hv, left |-> 0, right |-> 0, parent |-> 0]

newParentNode(hv, l, r) == [newNode(hv) EXCEPT !.left = l, !.right = r]

IsLeaf(hp, n) == hp[n].left = 0 /\ hp[n].right = 0

IsLeft(hp, n) == hp[n].parent # 0 /\ hp[hp[n].parent].left = n

IsRight(hp, n) == hp[n].parent # 0 /\ hp[hp[n].parent].right = n

\* Sibling with the test of the side left out.
SiblingAlwaysLeft(hp, n) ==
    IF hp[n].parent = 0 THEN 0 ELSE hp[hp[n].parent].left

Sibling(hp, n) ==
    IF hp[n].parent = 0 THEN 0
    ELSE IF hp[hp[n].parent].left = n THEN hp[hp[n].parent].right
    ELSE hp[hp[n].parent].left

\* Nodes.Less and Nodes.Swap, with 1-based positions.
Less(hp, ns, i, j) == BytesCompare(hp[ns[i]].val, hp[ns[j]].val) = -1

\* Swap that forgets its second assignment.
SwapLossy(ns, i, j) == [ns EXCEPT ![i] = ns[j]]

Swap(ns, i, j) == [ns EXCEPT ![i] = ns[j], ![j] = ns[i]]

\* IteratePair that pairs the odd node with itself instead of returning it.
IteratePairDup(ns) ==
    [calls |-> [k \in 1..((Len(ns) + 1) \div 2) |->
                    <<ns[2 * k - 1], IF 2 * k <= Len(ns) THEN ns[2 * k] ELSE ns[2 * k - 1]>>],
     odd   |-> 0,
     ns    |-> ns]

\* Nodes.IteratePair: the calls fn(i, j) it makes, in order, the odd node
\* (0 for nil), and the receiver as the call leaves it.
IteratePair(ns) ==
    [calls |-> [k \in 1..(Len(ns) \div 2) |-> <<ns[2 * k - 1], ns[2 * k]>>],
     odd   |-> IF Len(ns) % 2 # 0 THEN ns[Len(ns)] ELSE 0,
     ns    |-> ns]

\* The callback without the exchange of i and j.
SortedPairCallNoSwap(hp, i, j) == <<i, j>>

\* The callback IterateSortedPair hands to IteratePair: the call of fn it makes.
SortedPairCall(hp, i, j) ==
    IF BytesCompare(hp[i].val, hp[j].val) = 1 THEN <<j, i>> ELSE <<i, j>>

\* IterateSortedPair that exchanges the elements of the receiver instead of
\* the arguments of the callback.
IterateSortedPairInPlace(hp, ns) ==
    LET it == IteratePair(ns)
        sorted == [k \in DOMAIN it.calls |->
                      SortedPairCall(hp, it.calls[k][1], it.calls[k][2])]
    IN  [calls |-> sorted,
         odd   |-> it.odd,
         ns    |-> [k \in DOMAIN ns |->
                       IF (k + 1) \div 2 \in DOMAIN sorted
                       THEN sorted[(k + 1) \div 2][2 - (k % 2)]
                       ELSE ns[k]]]

IterateSortedPair(hp, ns) ==
    LET it == IteratePair(ns)
    IN  [calls |-> [k \in DOMAIN it.calls |->
                        SortedPairCall(hp, it.calls[k][1], it.calls[k][2])],
         odd   |-> it.odd,
         ns    |-> it.ns]

ToByteArrays(hp, ns) == [k \in DOMAIN ns |-> hp[ns[k]].val]

byteArrSliceToNodes(bas) ==
    [heap  |-> [k \in DOMAIN bas |-> newNode(bas[k])],
     nodes |-> [k \in DOMAIN bas |-> k]]

(***************************************************************************)
(* sort.Sort(leaves).  For slices shorter than 12 elements the library     *)
(* runs an insertion sort over Less and Swap.                              *)
(***************************************************************************)
RECURSIVE SortInner(_, _, _)
SortInner(hp, ns, j) ==
    IF j > 1 /\ Less(hp, ns, j, j - 1)
    THEN SortInner(hp, Swap(ns, j, j - 1), j - 1)
    ELSE ns

RECURSIVE SortOuter(_, _, _)
SortOuter(hp, ns, i) ==
    IF i > Len(ns) THEN ns ELSE SortOuter(hp, SortInner(hp, ns, i), i + 1)

\* No sorting at all.
SortNone(hp, ns) == ns

Sort(hp, ns) == SortOuter(hp, ns, 2)

(***************************************************************************)
(* tree.go: buildTree.  The builder's state is the heap, the hash          *)
(* instance, the parents made so far (ps) and the number of digests        *)
(* computed (sums).                                                        *)
(***************************************************************************)
\* The callback that attaches the parent to i alone.
PairCallbackOneParent(alg, st, i, j) ==
    LET h1 == HashReset(st.h)
        h2 == HashWrite(h1, st.heap[i].val)
        h3 == HashWrite(h2, st.heap[j].val)
        p  == Len(st.heap) + 1
    IN  [heap |-> Append([st.heap EXCEPT ![i].parent = p],
                         newParentNode(HashSum(alg, h3), i, j)),
         h    |-> h3,
         ps   |-> Append(st.ps, p),
         sums |-> st.sums + 1]

\* The callback buildTree hands to IterateSortedPair.
PairCallback(alg, st, i, j) ==
    LET h1 == HashReset(st.h)
        h2 == HashWrite(h1, st.heap[i].val)
        h3 == HashWrite(h2, st.heap[j].val)
        p  == Len(st.heap) + 1
    IN  [heap |-> Append([st.heap EXCEPT ![i].parent = p, ![j].parent = p],
                         newParentNode(HashSum(alg, h3), i, j)),
         h    |-> h3,
         ps   |-> Append(st.ps, p),
         sums |-> st.sums + 1]

RECURSIVE PairLoop(_, _, _, _)
PairLoop(alg, st, calls, k) ==
    IF k > Len(calls) THEN st
    ELSE PairLoop(alg, PairCallback(alg, st, calls[k][1], calls[k][2]), calls, k + 1)

\* One round that puts the odd node before the parents instead of after them.
BuildLevelOddFirst(alg, hp, hh, sums, ns) ==
    LET it == IterateSortedPair(hp, ns)
        st == PairLoop(alg, [heap |-> hp, h |-> hh, ps |-> <<>>, sums |-> sums],
                       it.calls, 1)
    IN  [heap |-> st.heap, h |-> st.h, sums |-> st.sums,
         ps   |-> IF it.odd # 0 THEN <<it.odd>> \o st.ps ELSE st.ps]

\* One round of buildTree over the level ns: the parents made of its pairs,
\* followed by its odd node if it has one.
BuildLevel(alg, hp, hh, sums, ns) ==
    LET it == IterateSortedPair(hp, ns)
        st == PairLoop(alg, [heap |-> hp, h |-> hh, ps |-> <<>>, sums |-> sums],
                       it.calls, 1)
    IN  [heap |-> st.heap, h |-> st.h, sums |-> st.sums,
         ps   |-> IF it.odd # 0 THEN Append(st.ps, it.odd) ELSE st.ps]

\* The result: the heap, the hash instance, the root (0 when the call
\* panicked on ps[0] of an empty ps) and the digests computed.
RECURSIVE buildTree(_, _, _, _, _)
buildTree(alg, hp, hh, sums, ns) ==
    LET lv == BuildLevel(alg, hp, hh, sums, ns)
    IN  IF Len(lv.ps) > 1 THEN buildTree(alg, lv.heap, lv.h, lv.sums, lv.ps)
        ELSE [heap  |-> lv.heap, h |-> lv.h, sums |-> lv.sums,
              panic |-> Len(lv.ps) = 0,
              root  |-> IF Len(lv.ps) = 0 THEN 0 ELSE lv.ps[1]]

\* NewTree(h, hl).
NewTreeOp(alg, hh, hl0) ==
    LET made == byteArrSliceToNodes(hl0)
        lv   == Sort(made.heap, made.nodes)
        b    == buildTree(alg, made.heap, hh, 0, lv)
    IN  [heap |-> b.heap, h |-> b.h, sums |-> b.sums, panic |-> b.panic,
         root |-> b.root, leaves |-> lv]

(***************************************************************************)
(* tree.go: Tree.Proof.                                                    *)
(***************************************************************************)
\* sort.Search(n, f) with f(i) = (leaves[i].val >= hl): the binary search of
\* the library over the 0-based interval [i, j).
RECURSIVE Search(_, _, _, _, _)
Search(hp, lv, x, i, j) ==
    IF i < j
    THEN LET m   == (i + j) \div 2
             cmp == BytesCompare(hp[lv[m + 1]].val, x)
         IN  IF ~(cmp = 1 \/ cmp = 0)
             THEN Search(hp, lv, x, m + 1, j)
             ELSE Search(hp, lv, x, i, m)
    ELSE i

\* buildProof(n): the siblings from n up to the root.  Calling Sibling on a
\* nil node panics.
RECURSIVE buildProof(_, _, _, _)
buildProof(hp, rt, n, proof) ==
    IF n # rt
    THEN IF n = 0 THEN [nodes |-> proof, panic |-> TRUE]
         ELSE buildProof(hp, rt, hp[n].parent, Append(proof, Sibling(hp, n)))
    ELSE [nodes |-> proof, panic |-> FALSE]

\* Proof without the test that the leaf found carries the digest asked for.
ProofOpNoEqualCheck(hp, rt, lv, x) ==
    LET ihl == Search(hp, lv, x, 0, Len(lv))
    IN  IF ihl >= Len(lv)
        THEN [nodes |-> <<>>, panic |-> FALSE]
        ELSE buildProof(hp, rt, lv[ihl + 1], <<>>)

\* t.Proof(hl), for the tree t = (rt, lv) in the heap hp.
ProofOp(hp, rt, lv, x) ==
    LET ihl == Search(hp, lv, x, 0, Len(lv))
    IN  IF ihl >= Len(lv) \/ BytesCompare(hp[lv[ihl + 1]].val, x) # 0
        THEN [nodes |-> <<>>, panic |-> FALSE]
        ELSE buildProof(hp, rt, lv[ihl + 1], <<>>)

(***************************************************************************)
(* tree.go: Verify.                                                        *)
(***************************************************************************)
\* The round that always hashes the running digest first.
VerifyStepNoSwap(alg, st, e) ==
    LET h1 == HashReset(st.h)
        h2 == HashWrite(h1, st.leaf)
        h3 == HashWrite(h2, e)
    IN  [h |-> h3, leaf |-> HashSum(alg, h3), sums |-> st.sums + 1]

\* One round of the loop of Verify, for the proof element e.
VerifyStep(alg, st, e) ==
    LET swap == BytesCompare(st.leaf, e) = 1
        i  == IF swap THEN e ELSE st.leaf
        j  == IF swap THEN st.leaf ELSE e
        h1 == HashReset(st.h)
        h2 == HashWrite(h1, i)
        h3 == HashWrite(h2, j)
    IN  [h |-> h3, leaf |-> HashSum(alg, h3), sums |-> st.sums + 1]

RECURSIVE VerifyLoop(_, _, _, _)
VerifyLoop(alg, st, proof, k) ==
    IF k > Len(proof) THEN st
    ELSE VerifyLoop(alg, VerifyStep(alg, st, proof[k]), proof, k + 1)

\* Verify that accepts every digest that is not greater than the root.
VerifyOpLenient(alg, hh, leaf, rootv, proof) ==
    LET st == VerifyLoop(alg, [h |-> hh, leaf |-> leaf, sums |-> 0], proof, 1)
    IN  [h |-> st.h, sums |-> st.sums, ok |-> BytesCompare(st.leaf, rootv) # 1]

\* Verify that refuses an empty proof.
VerifyOpNonEmpty(alg, hh, leaf, rootv, proof) ==
    LET st == VerifyLoop(alg, [h |-> hh, leaf |-> leaf, sums |-> 0], proof, 1)
    IN  [h |-> st.h, sums |-> st.sums,
         ok |-> proof # <<>> /\ BytesCompare(st.leaf, rootv) = 0]

VerifyOp(alg, hh, leaf, rootv, proof) ==
    LET st == VerifyLoop(alg, [h |-> hh, leaf |-> leaf, sums |-> 0], proof, 1)
    IN  [h |-> st.h, sums |-> st.sums, ok |-> BytesCompare(st.leaf, rootv) = 0]

(***************************************************************************)
(* The program: a caller builds one tree from the input hl with the hash   *)
(* instance h, and then asks for proofs and verifies them, each Verify     *)
(* with a hash instance of its own (sha256.New()).                         *)
(***************************************************************************)
VARIABLES
    pc,      \* "start", "built" (NewTree returned) or "panic" (NewTree panicked)
    algo,    \* the kind of the hash instances
    h,       \* the hash instance handed to NewTree
    hl,      \* the input of NewTree
    heap,    \* the nodes allocated
    root,    \* Tree.root
    leaves,  \* Tree.leaves
    last,    \* the last call made and what it returned
    calls,   \* the calls of the concurrent callers: position and local variables
    hashes   \* the hash instances of the concurrent callers

vars == <<pc, algo, h, hl, heap, root, leaves, last, calls, hashes>>

NewHash == [buf |-> <<>>]

RECURSIVE SeqsUpTo(_, _)
SeqsUpTo(S, n) ==
    IF n = 0 THEN {<<>>}
    ELSE LET shorter == SeqsUpTo(S, n - 1)
         IN  shorter \cup {Append(s, e) : s \in {t \in shorter : Len(t) = n - 1}, e \in S}

\* Every input: any order, duplicates included, the empty input included.
Inputs == SeqsUpTo(LeafDigests, MaxLeaves)

Ascending(s) == \A k \in 1..(Len(s) - 1) : BytesCompare(s[k], s[k + 1]) # 1

Descending(s) == \A k \in 1..(Len(s) - 1) : BytesCompare(s[k], s[k + 1]) # -1

\* The inputs that are handed over in ascending or in descending order.
OrderedInputs == {s \in Inputs : Ascending(s) \/ Descending(s)}

\* The concurrent callers (goroutines) of one built tree.
Threads == {1, 2}

\* A caller that has not made its call yet.
IdleCall ==
    [pc |-> "idle", x |-> <<>>, nodes |-> <<>>, proof |-> <<>>, k |-> 0,
     leaf |-> <<>>, i |-> <<>>, j |-> <<>>, ok |-> FALSE]

NoCall ==
    [op |-> "none", leaf |-> <<>>, root |-> <<>>, proof |-> <<>>,
     nodes |-> <<>>, ok |-> FALSE, sums |-> 0, pairs |-> <<>>]

InitWith(S) ==
    /\ pc = "start"
    /\ algo \in Algos
    /\ h = NewHash
    /\ hl \in S
    /\ heap = <<>>
    /\ root = 0
    /\ leaves = <<>>
    /\ last = NoCall
    /\ calls = [t \in Threads |-> IdleCall]
    /\ hashes = [t \in Threads |-> NewHash]

Init == InitWith(OrderedInputs)

InitBuild == InitWith(Inputs)

\* The inputs without duplicates, drawn from MaxDistinctVal + 1 leaf digests
\* and handed over in ascending or in descending order.
DistinctInputs ==
    {s \in SeqsUpTo({LeafDigest(v) : v \in 0..MaxDistinctVal}, MaxLeaves) :
        /\ Ascending(s) \/ Descending(s)
        /\ \A i, j \in DOMAIN s : i # j => s[i] # s[j]}

InitDistinct == InitWith(DistinctInputs)

\* tree := NewTree(h, hl)
NewTree ==
    /\ pc = "start"
    /\ LET r == NewTreeOp(algo, h, hl)
       IN  /\ pc' = IF r.panic THEN "panic" ELSE "built"
           /\ h' = r.h
           /\ heap' = r.heap
           /\ root' = r.root
           /\ leaves' = IF r.panic THEN <<>> ELSE r.leaves
           /\ last' = [NoCall EXCEPT !.op = "NewTree", !.sums = r.sums]
    /\ UNCHANGED <<algo, hl, calls, hashes>>

\* tree.Root().
Root ==
    /\ pc = "built"
    /\ last' = [NoCall EXCEPT !.op = "Root", !.nodes = <<root>>]
    /\ UNCHANGED <<pc, algo, h, hl, heap, root, leaves, calls, hashes>>

\* The digests a caller asks a proof for: leaf digests, in the tree or not,
\* the digests of the input, and the root digest.
Queries ==
    LeafDigests \cup {LeafDigest(MaxVal + 1)} \cup {hl[k] : k \in DOMAIN hl}
        \cup (IF root # 0 THEN {heap[root].val} ELSE {})

\* proof := tree.Proof(x)
Proof(x) ==
    /\ pc = "built"
    /\ LET r == ProofOp(heap, root, leaves, x)
       IN  last' = [NoCall EXCEPT !.op = "Proof", !.leaf = x, !.nodes = r.nodes,
                                  !.ok = ~r.panic]
    /\ UNCHANGED <<pc, algo, h, hl, heap, root, leaves, calls, hashes>>

\* The proofs a caller hands to Verify after tree.Proof(x) returned: the
\* proof as returned, or the proof with one element replaced by another
\* digest (a leaf digest, the digest of a node of the tree, or the element
\* with its first byte changed).
FirstByteChanged(d) == [d EXCEPT ![1] = (d[1] + 1) % (MaxVal + 2)]

Replacements(d) ==
    (LeafDigests \cup {FirstByteChanged(d)} \cup {heap[n].val : n \in DOMAIN heap}) \ {d}

Tampered(p) ==
    UNION {{[p EXCEPT ![k] = v] : v \in Replacements(p[k])} : k \in DOMAIN p}

\* ok := Verify(sha256.New(), leaf, tree.Root().Bytes(), proof)
\* Verify with leaf = algo.Sum(leaf[:0]): the running digest is written into
\* the bytes of the leaf handed over, which the node of the tree shares.
VerifyInPlace(leaf, proof) ==
    /\ pc = "built"
    /\ LET r == VerifyOp(algo, NewHash, leaf, heap[root].val, proof)
           shared == {k \in DOMAIN leaves : heap[leaves[k]].val = leaf}
       IN  /\ last' = [NoCall EXCEPT !.op = "Verify", !.leaf = leaf,
                                      !.root = heap[root].val, !.proof = proof,
                                      !.ok = r.ok, !.sums = r.sums]
           /\ heap' = IF proof # <<>> /\ shared # {}
                      THEN LET n == leaves[CHOOSE k \in shared : \A l \in shared : k <= l]
                           IN  [heap EXCEPT ![n].val = HashSum(algo, [buf |-> leaf \o proof[1]])]
                      ELSE heap
    /\ UNCHANGED <<pc, algo, h, hl, root, leaves, calls, hashes>>

Verify(leaf, proof) ==
    /\ pc = "built"
    /\ LET r == VerifyOp(algo, NewHash, leaf, heap[root].val, proof)
       IN  last' = [NoCall EXCEPT !.op = "Verify", !.leaf = leaf,
                                  !.root = heap[root].val, !.proof = proof,
                                  !.ok = r.ok, !.sums = r.sums]
    /\ UNCHANGED <<pc, algo, h, hl, heap, root, leaves, calls, hashes>>

\* After proof := tree.Proof(x): Verify of x or of another leaf digest with
\* the proof, of x with the proof tampered with, or of the digest of the
\* node above the i-th proof element with the rest of the proof.
VerifyAfterProof ==
    /\ last.op = "Proof"
    /\ LET p == ToByteArrays(heap, last.nodes)
       IN  \/ \E y \in LeafDigests \cup {last.leaf} : Verify(y, p)
           \/ \E q \in Tampered(p) : Verify(last.leaf, q)
           \/ \E i \in DOMAIN p :
                  Verify(heap[heap[last.nodes[i]].parent].val, SubSeq(p, i + 1, Len(p)))

Next ==
    \/ NewTree
    \/ Root
    \/ \E x \in Queries : Proof(x)
    \/ VerifyAfterProof

Spec == Init /\ [][Next]_vars

\* The construction alone, from every input.
NextBuild == NewTree

SpecBuild == InitBuild /\ [][NextBuild]_vars

(***************************************************************************)
(* Concurrent callers of one built tree.  Each caller t runs               *)
(* proof := tree.Proof(x) and then Verify(hashes[InstanceOf(t)], x, root,  *)
(* proof); the steps of the callers interleave at the calls on the hash    *)
(* instance (Reset, Write, Write, Sum) and at the calls and returns.       *)
(***************************************************************************)
MaxConcLeaves == 3  \* the trees the concurrent callers use: up to MaxConcLeaves leaves

ConcInputs == {s \in SeqsUpTo(LeafDigests, MaxConcLeaves) : Ascending(s)}

InitConc == InitWith(ConcInputs)

\* All callers hand the same hash instance to Verify.
InstanceOfShared(t) == 1

\* The hash instance caller t hands to Verify: one of its own.
InstanceOf(t) == t

\* proof := tree.Proof(x), which only reads the tree.
CallProof(t, x) ==
    /\ pc = "built"
    /\ calls[t].pc = "idle"
    /\ LET r == ProofOp(heap, root, leaves, x)
       IN  calls' = [calls EXCEPT ![t] =
                        [IdleCall EXCEPT !.pc = "proved", !.x = x, !.nodes = r.nodes,
                                         !.proof = ToByteArrays(heap, r.nodes)]]
    /\ UNCHANGED <<pc, algo, h, hl, heap, root, leaves, last, hashes>>

\* Verify is entered: leaf is the parameter, the range loop starts.
CallVerify(t) ==
    /\ calls[t].pc = "proved"
    /\ calls' = [calls EXCEPT ![t].pc = "loop", ![t].k = 1, ![t].leaf = calls[t].x]
    /\ UNCHANGED <<pc, algo, h, hl, heap, root, leaves, last, hashes>>

\* The next proof element: i, j := leaf, h, swapped if leaf is greater; then
\* algo.Reset().
VerifyReset(t) ==
    /\ calls[t].pc = "loop"
    /\ calls[t].k <= Len(calls[t].proof)
    /\ LET e    == calls[t].proof[calls[t].k]
           swap == BytesCompare(calls[t].leaf, e) = 1
       IN  calls' = [calls EXCEPT ![t].pc = "write_i",
                                  ![t].i = IF swap THEN e ELSE calls[t].leaf,
                                  ![t].j = IF swap THEN calls[t].leaf ELSE e]
    /\ hashes' = [hashes EXCEPT ![InstanceOf(t)] = HashReset(@)]
    /\ UNCHANGED <<pc, algo, h, hl, heap, root, leaves, last>>

\* algo.Write(i).
VerifyWriteI(t) ==
    /\ calls[t].pc = "write_i"
    /\ calls' = [calls EXCEPT ![t].pc = "write_j"]
    /\ hashes' = [hashes EXCEPT ![InstanceOf(t)] = HashWrite(@, calls[t].i)]
    /\ UNCHANGED <<pc, algo, h, hl, heap, root, leaves, last>>

\* algo.Write(j).
VerifyWriteJ(t) ==
    /\ calls[t].pc = "write_j"
    /\ calls' = [calls EXCEPT ![t].pc = "sum"]
    /\ hashes' = [hashes EXCEPT ![InstanceOf(t)] = HashWrite(@, calls[t].j)]
    /\ UNCHANGED <<pc, algo, h, hl, heap, root, leaves, last>>

\* leaf = algo.Sum(nil), and on to the next proof element.
VerifySum(t) ==
    /\ calls[t].pc = "sum"
    /\ calls' = [calls EXCEPT ![t].pc = "loop", ![t].k = @ + 1,
                              ![t].leaf = HashSum(algo, hashes[InstanceOf(t)])]
    /\ UNCHANGED <<pc, algo, h, hl, heap, root, leaves, last, hashes>>

\* The loop is over: return bytes.Compare(leaf, root) == 0.
VerifyReturn(t) ==
    /\ calls[t].pc = "loop"
    /\ calls[t].k > Len(calls[t].proof)
    /\ calls' = [calls EXCEPT ![t].pc = "done",
                              ![t].ok = BytesCompare(calls[t].leaf, heap[root].val) = 0]
    /\ UNCHANGED <<pc, algo, h, hl, heap, root, leaves, last, hashes>>

\* The digests the concurrent callers ask about: leaf digests, in the tree or not.
ConcQueries == LeafDigests

NextConc ==
    \/ NewTree
    \/ \E t \in Threads :
        \/ \E x \in ConcQueries : CallProof(t, x)
        \/ CallVerify(t)
        \/ VerifyReset(t)
        \/ VerifyWriteI(t)
        \/ VerifyWriteJ(t)
        \/ VerifySum(t)
        \/ VerifyReturn(t)

SpecConc == InitConc /\ [][NextConc]_vars

(***************************************************************************)
(* The pairing iterators on their own, as the tests call them: the Nodes   *)
(* are made of the input in the order given, sorted or not, and the        *)
(* callback records its arguments.                                         *)
(***************************************************************************)
TestIteratePair ==
    /\ pc = "start"
    /\ LET made == byteArrSliceToNodes(hl)
           it   == IteratePair(made.nodes)
       IN  /\ heap' = made.heap
           /\ leaves' = it.ns
           /\ last' = [NoCall EXCEPT !.op = "IteratePair", !.pairs = it.calls,
                                     !.nodes = IF it.odd = 0 THEN <<>> ELSE <<it.odd>>]
    /\ pc' = "iterated"
    /\ UNCHANGED <<algo, h, hl, root, calls, hashes>>

TestIterateSortedPair ==
    /\ pc = "start"
    /\ LET made == byteArrSliceToNodes(hl)
           it   == IterateSortedPair(made.heap, made.nodes)
       IN  /\ heap' = made.heap
           /\ leaves' = it.ns
           /\ last' = [NoCall EXCEPT !.op = "IterateSortedPair", !.pairs = it.calls,
                                     !.nodes = IF it.odd = 0 THEN <<>> ELSE <<it.odd>>]
    /\ pc' = "iterated"
    /\ UNCHANGED <<algo, h, hl, root, calls, hashes>>

NextIter ==
    \/ TestIteratePair
    \/ TestIterateSortedPair

SpecIter == InitBuild /\ [][NextIter]_vars

\* The program on inputs without duplicates: the tree and its proofs.
NextDistinct ==
    \/ NewTree
    \/ \E x \in Queries : Proof(x)

SpecDistinct == InitDistinct /\ [][NextDistinct]_vars

(***************************************************************************)
(* What the claims speak of.                                               *)
(***************************************************************************)
Built == pc = "built"

\* The digests of the leaves of the tree, and of the input.
LeafVals == {heap[leaves[k]].val : k \in DOMAIN leaves}

InputVals == {hl[k] : k \in DOMAIN hl}

\* The proof tree.Proof(x) returns, as byte slices.
HonestProof(x) == ToByteArrays(heap, ProofOp(heap, root, leaves, x).nodes)

\* The number of parent links from n up to a node without parent.
RECURSIVE Depth(_)
Depth(n) == IF heap[n].parent = 0 THEN 0 ELSE 1 + Depth(heap[n].parent)

\* The i-th ancestor of n (n itself for i = 0).
RECURSIVE Ancestor(_, _)
Ancestor(n, i) == IF i = 0 THEN n ELSE Ancestor(heap[n].parent, i - 1)

\* The child of n's parent that is not n.
OtherChild(n) ==
    CHOOSE c \in {heap[heap[n].parent].left, heap[heap[n].parent].right} : c # n

Internal == {n \in DOMAIN heap : ~IsLeaf(heap, n)}

\* p and q differ in exactly one element.
OneElementReplaced(p, q) ==
    /\ Len(p) = Len(q)
    /\ Cardinality({k \in DOMAIN p : p[k] # q[k]}) = 1

(***************************************************************************)
(* C1. Proof soundness: whenever Verify is called with a digest x of the   *)
(* input (any order, duplicates permitted), the root digest of the tree    *)
(* and the proof tree.Proof(x) returns, it returns true.                   *)
(***************************************************************************)
ProofSoundness ==
    (/\ last.op = "Verify"
     /\ last.leaf \in InputVals
     /\ last.root = heap[root].val
     /\ last.proof = HonestProof(last.leaf))
        => last.ok

\* A true Verify of a three-element proof, for a tree built from a
\* descending input with duplicates.
ProofSoundnessWitness ==
    /\ last.op = "Verify"
    /\ last.leaf \in InputVals
    /\ last.proof = HonestProof(last.leaf)
    /\ Len(last.proof) = 3
    /\ last.ok
    /\ ~Ascending(hl)
    /\ Cardinality(InputVals) < Len(hl)

(***************************************************************************)
(* C2. Order independence: the root digest of the tree built from hl is    *)
(* the root digest of the tree built from hl with any two of its elements  *)
(* exchanged.  Every input is an initial state and every permutation is a  *)
(* product of such exchanges, so all the permutations of a multiset of     *)
(* leaves share one root digest.                                           *)
(***************************************************************************)
Exchanged(s, i, j) == [s EXCEPT ![i] = s[j], ![j] = s[i]]

OrderIndependence ==
    Built =>
        \A i, j \in DOMAIN hl :
            i < j =>
                LET t == NewTreeOp(algo, NewHash, Exchanged(hl, i, j))
                IN  ~t.panic /\ t.heap[t.root].val = heap[root].val

\* A tree built from an input that is not in ascending order and holds
\* three different digests.
OrderIndependenceWitness ==
    /\ Built
    /\ ~Ascending(hl)
    /\ Cardinality(InputVals) >= 3
    /\ Len(hl) = MaxLeaves

(***************************************************************************)
(* C3. Construction on empty input: NewTree with zero leaves ends with a   *)
(* reported construction error; it never panics and never returns a tree.  *)
(***************************************************************************)
EmptyInputReported ==
    (hl = <<>> /\ pc # "start") => (pc = "error" /\ root = 0)

(***************************************************************************)
(* C4. Tamper detection: Verify against the root digest of the tree        *)
(* returns false when it is handed a leaf digest x of the tree and         *)
(* tree.Proof(x) with one element replaced by a different digest, or       *)
(* tree.Proof(x) and a leaf digest of the tree other than x.               *)
(***************************************************************************)
TamperDetection ==
    (/\ last.op = "Verify"
     /\ last.root = heap[root].val
     /\ \E x \in LeafVals :
            \/ last.leaf = x /\ OneElementReplaced(HonestProof(x), last.proof)
            \/ /\ last.leaf # x
               /\ last.leaf \in LeafVals
               /\ last.proof = HonestProof(x))
        => ~last.ok

\* A false Verify of a three-element proof whose last element was replaced.
TamperDetectionWitness ==
    /\ last.op = "Verify"
    /\ last.leaf \in LeafVals
    /\ Len(last.proof) = 3
    /\ OneElementReplaced(HonestProof(last.leaf), last.proof)
    /\ last.proof[3] # HonestProof(last.leaf)[3]
    /\ ~last.ok

(***************************************************************************)
(* C5. Absent-leaf proof is empty: tree.Proof(x) for a digest x that is    *)
(* the digest of no leaf of the tree returns an empty proof and does not   *)
(* panic.                                                                  *)
(***************************************************************************)
AbsentLeafProofEmpty ==
    (last.op = "Proof" /\ last.leaf \notin LeafVals)
        => (last.nodes = <<>> /\ last.ok)

\* A proof asked for a digest that lies between two leaves of the tree.
AbsentLeafProofEmptyWitness ==
    /\ last.op = "Proof"
    /\ last.leaf \notin LeafVals
    /\ \E a, b \in LeafVals :
           BytesCompare(a, last.leaf) = -1 /\ BytesCompare(last.leaf, b) = -1
    /\ last.nodes = <<>>

(***************************************************************************)
(* C6. Single-leaf degenerate case: the tree built from one leaf has that  *)
(* leaf node as its root, with the input digest as its value; NewTree      *)
(* leaves the hash instance untouched and computes no digest; and the      *)
(* proof of that leaf is empty.                                            *)
(***************************************************************************)
SingleLeaf ==
    (Built /\ Len(hl) = 1) =>
        /\ Len(leaves) = 1
        /\ root = leaves[1]
        /\ heap[root].val = hl[1]
        /\ IsLeaf(heap, root)
        /\ Len(heap) = 1
        /\ h = NewHash
        /\ (last.op = "NewTree" => last.sums = 0)
        /\ (last.op = "Proof" /\ last.leaf = hl[1]) => (last.nodes = <<>> /\ last.ok)

\* The proof of the one leaf of a one-leaf tree was asked for.
SingleLeafWitness ==
    /\ Built
    /\ Len(hl) = 1
    /\ last.op = "Proof"
    /\ last.leaf = hl[1]

(***************************************************************************)
(* C7. Canonical hash invariant: every internal node of the tree has two   *)
(* children, the value of the left one is not greater than the value of    *)
(* the right one in byte order, and the node's value is the digest of the  *)
(* left value followed by the right value.                                 *)
(***************************************************************************)
CanonicalHash ==
    Built =>
        \A n \in Internal :
            /\ heap[n].left # 0
            /\ heap[n].right # 0
            /\ BytesCompare(heap[heap[n].left].val, heap[heap[n].right].val) # 1
            /\ heap[n].val =
                   HashSum(algo, [buf |-> heap[heap[n].left].val \o heap[heap[n].right].val])

\* A tree in which a carried-over leaf became the left child of a node whose
\* right child is a freshly hashed parent, and in which two parents were
\* paired in the order opposite to the one they were made in.
CanonicalHashWitness ==
    /\ Built
    /\ \E n \in Internal :
           IsLeaf(heap, heap[n].left) /\ ~IsLeaf(heap, heap[n].right)
    /\ \E n \in Internal :
           /\ ~IsLeaf(heap, heap[n].left)
           /\ ~IsLeaf(heap, heap[n].right)
           /\ heap[n].left > heap[n].right

(***************************************************************************)
(* C8. Structural invariant: in the tree built from n >= 1 leaves every    *)
(* node has zero or two children, the two children of a node are distinct  *)
(* nodes whose parent is that node, the root is the only node without      *)
(* parent, and the nodes without children are exactly the n entries of     *)
(* the leaf index.                                                         *)
(***************************************************************************)
Structure ==
    Built =>
        /\ \A n \in DOMAIN heap :
               /\ (heap[n].left = 0) <=> (heap[n].right = 0)
               /\ heap[n].left # 0 =>
                      /\ heap[n].left # heap[n].right
                      /\ heap[n].left \in DOMAIN heap
                      /\ heap[n].right \in DOMAIN heap
                      /\ heap[heap[n].left].parent = n
                      /\ heap[heap[n].right].parent = n
               /\ (heap[n].parent = 0) <=> (n = root)
        /\ root \in DOMAIN heap
        /\ {n \in DOMAIN heap : IsLeaf(heap, n)} = {leaves[k] : k \in DOMAIN leaves}
        /\ Cardinality({leaves[k] : k \in DOMAIN leaves}) = Len(hl)
        /\ Len(leaves) = Len(hl)

\* A tree of MaxLeaves leaves.
StructureWitness ==
    /\ Built
    /\ Len(hl) = MaxLeaves
    /\ Len(heap) = 2 * MaxLeaves - 1

(***************************************************************************)
(* C9. Leaf index invariant: Tree.leaves is as long as the input, holds    *)
(* every digest as often as the input does, and is in non-decreasing byte  *)
(* order.                                                                  *)
(***************************************************************************)
LeafIndex ==
    Built =>
        /\ Len(leaves) = Len(hl)
        /\ \A v \in InputVals \cup LeafVals :
               Cardinality({k \in DOMAIN leaves : heap[leaves[k]].val = v})
                   = Cardinality({k \in DOMAIN hl : hl[k] = v})
        /\ \A k \in 1..(Len(leaves) - 1) :
               BytesCompare(heap[leaves[k]].val, heap[leaves[k + 1]].val) # 1

\* The leaf index of a tree built from an input out of order with duplicates.
LeafIndexWitness ==
    /\ Built
    /\ ~Ascending(hl)
    /\ ~Descending(hl)
    /\ Cardinality(InputVals) < Len(hl)
    /\ Cardinality(InputVals) >= 3

(***************************************************************************)
(* C10. Proof content and order: tree.Proof(x) for a digest x of the tree  *)
(* starts at the first leaf of the leaf index whose value is x; it holds   *)
(* as many nodes as that leaf is deep below the root; its i-th node is the *)
(* other child of the parent of the leaf's (i-1)-th ancestor; its last     *)
(* node is a child of the root; and the root is not among its nodes.       *)
(***************************************************************************)
ProofContent ==
    (last.op = "Proof" /\ last.leaf \in LeafVals) =>
        LET k  == CHOOSE i \in DOMAIN leaves :
                      /\ heap[leaves[i]].val = last.leaf
                      /\ \A j \in 1..(i - 1) : heap[leaves[j]].val # last.leaf
            n0 == leaves[k]
            p  == last.nodes
        IN  /\ last.ok
            /\ Len(p) = Depth(n0)
            /\ \A i \in DOMAIN p : p[i] = OtherChild(Ancestor(n0, i - 1))
            /\ Len(p) > 0 => heap[p[Len(p)]].parent = root
            /\ \A i \in DOMAIN p : p[i] # root

\* The proof of a digest that several leaves carry, none of them the first
\* of the leaf index, three nodes long.
ProofContentWitness ==
    /\ last.op = "Proof"
    /\ last.leaf \in LeafVals
    /\ Cardinality({k \in DOMAIN leaves : heap[leaves[k]].val = last.leaf}) >= 2
    /\ heap[leaves[1]].val # last.leaf
    /\ Len(last.nodes) = 3

(***************************************************************************)
(* C11. Odd-node carry: in every round of buildTree over a level of odd    *)
(* length, the last node of the level is the last element of the next      *)
(* level, after the parents made in that round, and the round leaves that  *)
(* node as it was (no parent assigned, nothing re-hashed).  Hence, with    *)
(* P(a, b) the digest of the smaller of a and b followed by the greater:   *)
(* for 5 distinct leaves l0 < l1 < l2 < l3 < l4 the root is                *)
(* P(P(P(l0, l1), P(l2, l3)), l4), Proof(l0) is <<l1, P(l2, l3), l4>> and  *)
(* Proof(l4) is <<P(P(l0, l1), P(l2, l3))>>; for 4 distinct leaves the     *)
(* root is P(P(l0, l1), P(l2, l3)) and Proof(l2) is <<l3, P(l0, l1)>>.     *)
(***************************************************************************)
\* The i-th smallest digest of the input (i = 0 for the smallest).
Nth(i) ==
    CHOOSE v \in InputVals :
        Cardinality({w \in InputVals : BytesCompare(w, v) = -1}) = i

P(a, b) ==
    IF BytesCompare(a, b) = 1
    THEN HashSum(algo, [buf |-> b \o a])
    ELSE HashSum(algo, [buf |-> a \o b])

RECURSIVE RoundsCarry(_, _)
RoundsCarry(hp, ns) ==
    LET r   == BuildLevel(algo, hp, NewHash, 0, ns)
        odd == ns[Len(ns)]
    IN  /\ Len(ns) % 2 = 1 =>
               /\ Len(r.ps) = Len(ns) \div 2 + 1
               /\ r.ps[Len(r.ps)] = odd
               /\ r.heap[odd] = hp[odd]
               /\ hp[odd].parent = 0
               /\ \A k \in 1..(Len(r.ps) - 1) : r.ps[k] > Len(hp)
        /\ Len(r.ps) > 1 => RoundsCarry(r.heap, r.ps)

OddCarry ==
    (Built /\ Cardinality(InputVals) = Len(hl)) =>
        /\ RoundsCarry(byteArrSliceToNodes(hl).heap, leaves)
        /\ Len(hl) = 5 =>
               LET pp == P(P(Nth(0), Nth(1)), P(Nth(2), Nth(3)))
               IN  /\ heap[root].val = P(pp, Nth(4))
                   /\ (last.op = "Proof" /\ last.leaf = Nth(0)) =>
                          ToByteArrays(heap, last.nodes)
                              = <<Nth(1), P(Nth(2), Nth(3)), Nth(4)>>
                   /\ (last.op = "Proof" /\ last.leaf = Nth(4)) =>
                          ToByteArrays(heap, last.nodes) = <<pp>>
        /\ Len(hl) = 4 =>
               /\ heap[root].val = P(P(Nth(0), Nth(1)), P(Nth(2), Nth(3)))
               /\ (last.op = "Proof" /\ last.leaf = Nth(2)) =>
                      ToByteArrays(heap, last.nodes) = <<Nth(3), P(Nth(0), Nth(1))>>

\* The proof of the greatest of 5 distinct leaves, handed over in descending
\* order, was asked for: the leaf was carried over two rounds.
OddCarryWitness ==
    /\ Built
    /\ Len(hl) = 5
    /\ Cardinality(InputVals) = 5
    /\ ~Ascending(hl)
    /\ last.op = "Proof"
    /\ last.leaf = Nth(4)
    /\ Len(last.nodes) = 1

(***************************************************************************)
(* C12. Immutability after construction: after any sequence of Root, Proof *)
(* and Verify calls, for leaves in the tree or not, the tree is what it    *)
(* was when NewTree returned (the root reference, the leaf index and its   *)
(* order, and val, left, right and parent of every node), and whenever     *)
(* Proof(x) is called it returns the sequence it returns on the tree as    *)
(* NewTree returned it.                                                    *)
(***************************************************************************)
Immutability ==
    Built =>
        LET t == NewTreeOp(algo, NewHash, hl)
        IN  /\ root = t.root
            /\ leaves = t.leaves
            /\ heap = t.heap
            /\ last.op = "Root" => last.nodes = <<t.root>>
            /\ last.op = "Proof" =>
                   last.nodes = ProofOp(t.heap, t.root, t.leaves, last.leaf).nodes

\* Verify accepted a leaf with a proof of two or more elements, after Proof.
ImmutabilityWitness ==
    /\ Built
    /\ last.op = "Verify"
    /\ last.ok
    /\ Len(last.proof) >= 2
    /\ last.leaf \in LeafVals

(***************************************************************************)
(* C13. Concurrent use: when Proof calls and Verify calls on one tree      *)
(* interleave at the Reset, Write and Sum steps, each Verify with a hash   *)
(* instance of its own, every call returns what it returns when it runs    *)
(* alone; the calls change neither the tree nor the hash instance of       *)
(* another call: a hash instance is the only state a call writes to.       *)
(***************************************************************************)
ConcurrentUse ==
    Built =>
        LET t0 == NewTreeOp(algo, NewHash, hl)
        IN  /\ heap = t0.heap /\ root = t0.root /\ leaves = t0.leaves /\ h = t0.h
            /\ \A t \in Threads :
                /\ calls[t].pc # "idle" =>
                       calls[t].nodes = ProofOp(heap, root, leaves, calls[t].x).nodes
                /\ calls[t].pc = "done" =>
                       calls[t].ok = VerifyOp(algo, NewHash, calls[t].x, heap[root].val,
                                              calls[t].proof).ok
                /\ calls[t].pc = "idle" => hashes[t] = NewHash

\* Both callers are inside Verify at once, each between a Reset and a Sum
\* on its instance, the first in its second round, and the instances differ.
ConcurrentUseWitness ==
    /\ Built
    /\ calls[1].pc = "write_j"
    /\ calls[1].k = 2
    /\ calls[2].pc = "sum"
    /\ calls[2].k = 1
    /\ calls[1].x # calls[2].x
    /\ hashes[1] # hashes[2]

(***************************************************************************)
(* C14. Pairing iterators: on a Nodes sequence s of length m (sorted or    *)
(* not), IterateSortedPair calls the callback m \div 2 times; the k-th     *)
(* call, in increasing k, is on the (2k-1)-th and the 2k-th element,       *)
(* exchanged exactly when the first has the greater value, so that the     *)
(* first argument never has the greater value; it returns the last element *)
(* when m is odd and nil when m is even; s itself is not reordered.        *)
(* IteratePair does the same without ever exchanging.                      *)
(***************************************************************************)
PairingIterators ==
    pc = "iterated" =>
        LET m == Len(hl)
        IN  /\ Len(last.pairs) = m \div 2
            /\ \A k \in 1..(m \div 2) :
                LET a == 2 * k - 1
                    b == 2 * k
                    greater == BytesCompare(hl[a], hl[b]) = 1
                IN  /\ last.op = "IteratePair" => last.pairs[k] = <<a, b>>
                    /\ last.op = "IterateSortedPair" =>
                           /\ last.pairs[k] = IF greater THEN <<b, a>> ELSE <<a, b>>
                           /\ BytesCompare(heap[last.pairs[k][1]].val,
                                           heap[last.pairs[k][2]].val) # 1
            /\ last.nodes = IF m % 2 = 1 THEN <<m>> ELSE <<>>
            /\ leaves = [k \in 1..m |-> k]
            /\ \A k \in 1..m : heap[k] = newNode(hl[k])

\* IterateSortedPair ran over five unsorted nodes: it exchanged the first
\* pair, left the second and returned the fifth node.
PairingIteratorsWitness ==
    /\ pc = "iterated"
    /\ last.op = "IterateSortedPair"
    /\ Len(hl) = 5
    /\ BytesCompare(hl[1], hl[2]) = 1
    /\ BytesCompare(hl[3], hl[4]) = -1
    /\ last.pairs = <<(<<2, 1>>), (<<3, 4>>)>>
    /\ last.nodes = <<5>>

(***************************************************************************)
(* C15. Verify does not tell leaves from internal nodes: for every leaf x  *)
(* of the tree, with proof p of length k, and every i in 1..k, Verify of   *)
(* the digest of the i-th ancestor of x with the root and p without its    *)
(* first i elements returns true; so does Verify of the root digest with   *)
(* the root and the empty proof, although the root is not a leaf when the  *)
(* tree has two or more leaves.                                            *)
(***************************************************************************)
\* The leaf Proof(x) starts from: the first leaf of the index with digest x.
FirstLeaf(x) ==
    leaves[CHOOSE k \in DOMAIN leaves :
               /\ heap[leaves[k]].val = x
               /\ \A l \in 1..(k - 1) : heap[leaves[l]].val # x]

AncestorVerifies ==
    (Built /\ last.op = "Verify" /\ last.root = heap[root].val) =>
        /\ \A x \in LeafVals :
               LET p == HonestProof(x)
               IN  \A i \in 1..Len(p) :
                       (/\ last.leaf = heap[Ancestor(FirstLeaf(x), i)].val
                        /\ last.proof = SubSeq(p, i + 1, Len(p))) => last.ok
        /\ (last.leaf = heap[root].val /\ last.proof = <<>>) =>
               /\ last.ok
               /\ Len(leaves) >= 2 => (~IsLeaf(heap, root) /\ last.leaf \notin LeafVals)

\* Verify was called with the digest of an internal node below the root and
\* the rest of a leaf's proof.
AncestorVerifiesWitness ==
    /\ Built
    /\ last.op = "Verify"
    /\ last.ok
    /\ last.leaf \notin LeafVals
    /\ last.proof # <<>>
    /\ \E x \in LeafVals :
           \E i \in 1..(Len(HonestProof(x)) - 1) :
               /\ last.leaf = heap[Ancestor(FirstLeaf(x), i)].val
               /\ last.proof = SubSeq(HonestProof(x), i + 1, Len(HonestProof(x)))

(***************************************************************************)
(* C16. Absent values: for every value x that is no leaf digest of the     *)
(* tree, Proof(x) is empty and Verify of x with the root and that proof    *)
(* computes no digest and returns true exactly when x is the root digest.  *)
(***************************************************************************)
AbsentVerify ==
    (/\ Built
     /\ last.op = "Verify"
     /\ last.root = heap[root].val
     /\ last.leaf \notin LeafVals
     /\ last.proof = HonestProof(last.leaf)) =>
        /\ last.proof = <<>>
        /\ last.sums = 0
        /\ last.ok <=> (last.leaf = heap[root].val)

\* Verify accepted the root digest of a tree of two or more leaves, which is
\* no leaf digest, with the empty proof Proof returned for it.
AbsentVerifyWitness ==
    /\ Built
    /\ Len(leaves) >= 2
    /\ last.op = "Verify"
    /\ last.leaf = heap[root].val
    /\ last.leaf \notin LeafVals
    /\ last.proof = <<>>
    /\ HonestProof(last.leaf) = <<>>
    /\ last.sums = 0
    /\ last.ok

====
